---- MODULE Spec2Model ----
(***************************************************************************)
(* State-machine model of the ccc-voice-agent backend:                     *)
(*   - the batch extraction orchestrator (services/dataExtraction.ts) and  *)
(*     the POST /api/extraction/batch handler that drives it,              *)
(*   - the in-memory user table, POST /api/auth/register and             *)
(*     POST /api/auth/login (routes/auth.ts),                              *)
(*   - the middleware chain of the server entry point: rate limiter,       *)
(*     bearer-token middleware, route handlers with body validation,       *)
(*   - the browser client's processAudio runs and its download button.     *)
(* Each part has its own specification; the variables of the other parts   *)
(* stay at their initial values.                                           *)
(***************************************************************************)
EXTENDS Integers, Sequences, FiniteSets, TLC

VARIABLES
    \* ---- batch extraction (DataExtractionService.extractDataBatch) ----
    breq,       \* the validated request: number of items, type, customSchema?
    bpc,        \* position of the /batch handler and of the orchestrator loop
    bi,         \* the loop variable i of extractDataBatch
    promises,   \* item index -> state of the item's promise (batchPromises)
    order,      \* item indices of the current chunk in the order they settled
    outcomes,   \* history: item index -> what its remote call did
    calls,      \* history: item index -> remote calls made for the item
    delays,     \* history: pacing delays started by extractDataBatch
    results,    \* the results array of extractDataBatch
    bstatus,    \* HTTP status answered by POST /api/extraction/batch (0: none)
    \* ---- user table and registration (routes/auth.ts) ----
    users,      \* the users array
    reg,        \* register request slot -> its position, email, status
    jwtSecret,  \* whether process.env.JWT_SECRET is set
    given,      \* history: for each record of users, the password registered
    login,      \* the login request handled last and what was answered
    \* ---- request gate (server entry point) ----
    hits,       \* the limiter's store: client IP -> hits in the window
    seen,       \* history: client IP -> requests received in the window
    last,       \* the request handled last and what was answered
    env,        \* whether FAL_KEY and OPENAI_API_KEY are set
    \* ---- browser client (public/script.js, public/index.html) ----
    runs,                       \* processAudio run -> its position
    currentTranscriptionResult, \* the run whose transcription is stored (0: null)
    currentExtractionResult,    \* the run whose extraction is stored (0: null)
    resultsDisplay,             \* whether #results is displayed
    resultsIntact,              \* whether #results still holds its elements
    downloaded                  \* the results object of the last download

batchVars == <<breq, bpc, bi, promises, order, outcomes, calls, delays, results,
               bstatus>>
authVars  == <<users, reg, jwtSecret, given, login>>
gateVars  == <<hits, seen, last, env>>
clientVars == <<runs, currentTranscriptionResult, currentExtractionResult,
                resultsDisplay, resultsIntact, downloaded>>
vars      == <<breq, bpc, bi, promises, order, outcomes, calls, delays, results,
               bstatus,
               users, reg, jwtSecret, given, login, hits, seen, last, env,
               runs, currentTranscriptionResult, currentExtractionResult,
               resultsDisplay, resultsIntact, downloaded>>

(***************************************************************************)
(* Bounds                                                                  *)
(***************************************************************************)
MaxItems == 7       \* largest batch explored (the route allows up to 10)
MaxRegs  == 2       \* register requests that can be in flight at once
MaxUsers == 2       \* the user table is explored up to this many records
MaxHits  == 7       \* requests of one client IP explored per window
MaxLiveItems == 6   \* largest batch explored for termination
MaxRuns  == 3       \* processAudio runs of one page load

(***************************************************************************)
(* Batch extraction                                                        *)
(***************************************************************************)
maxConcurrent == 3

\* What the remote chat-completion call of one item can do.
RemoteOutcomes == {"ok", "error", "empty", "unparseable"}

\* The inputs that matter to the orchestrator: a catalogue type (its
\* customSchema is ignored), 'custom' with a schema, 'custom' without one.
BatchInputs == {<<"repair_details", FALSE>>, <<"custom", TRUE>>, <<"custom", FALSE>>}

Min(a, b) == IF a < b THEN a ELSE b

\* The id of input item k (ids are caller-supplied strings).
ItemId(k) == "t" \o ToString(k)

\* Mutant of Slice: the slice takes one item more than the loop steps over.
SliceOfFour(i, n) == (i + 1) .. Min(i + maxConcurrent + 1, n)

\* batch = request.transcriptions.slice(i, i + maxConcurrent), as 1-based
\* item indices.
Slice(i, n) == (i + 1) .. Min(i + maxConcurrent, n)

\* buildExtractionPrompt throws for 'custom' without a customSchema.
BuildPromptThrows(type, hasSchema) == type = "custom" /\ ~hasSchema

\* Mutant of ExtractData: a response that does not parse is passed on as the
\* extracted data of a successful result.
ExtractDataLenientParse(type, outcome) ==
    IF outcome \in {"ok", "unparseable"}
    THEN [success |-> TRUE, dataError |-> "none", confidence |-> "given",
          extractionType |-> type]
    ELSE [success |-> FALSE, dataError |-> "Unknown extraction error",
          confidence |-> "zero", extractionType |-> type]

\* The ExtractionResult extractData resolves with for a remote outcome; the
\* catch block turns every failure into a success=false result.  dataError is
\* extractedData.error ("none": absent).
ExtractData(type, outcome) ==
    IF outcome = "ok"
    THEN [success |-> TRUE, dataError |-> "none", confidence |-> "given",
          extractionType |-> type]
    ELSE [success |-> FALSE,
          dataError |-> CASE outcome = "error"       -> "provider error"
                          [] outcome = "empty"       -> "No response from extraction model"
                          [] outcome = "unparseable" -> "JSON parse error"
                          [] outcome = "prompt"      -> "Custom schema is required"
                          [] outcome = "rate limit"  -> "rate limit exceeded"
                          [] OTHER                   -> "Unknown extraction error",
          confidence |-> "zero", extractionType |-> type]

\* extractData never rejects: both paths of its try/catch return a result.
ExtractDataRejects(outcome) == FALSE

NoResult == [success |-> FALSE, dataError |-> "none", confidence |-> "zero",
             extractionType |-> "none"]
NoEntry == [id |-> "none", result |-> NoResult, error |-> "none"]

\* Mutant of BatchItem: the map callback without its try/catch and with the
\* awaited call rejecting on failure.
BatchItemUncaught(k, type, outcome) ==
    IF outcome = "ok"
    THEN [st |-> "fulfilled",
          entry |-> [id |-> ItemId(k), result |-> ExtractData(type, outcome),
                     error |-> "none"]]
    ELSE [st |-> "rejected", entry |-> NoEntry]

\* The async callback of batch.map for item k: the settled state of its
\* promise.  The callback's own catch (an entry with an error string) runs
\* only if extractData rejects.
BatchItem(k, type, outcome) ==
    IF ExtractDataRejects(outcome)
    THEN [st |-> "fulfilled",
          entry |-> [id |-> ItemId(k),
                     result |-> [success |-> FALSE, dataError |-> "none",
                                 confidence |-> "zero", extractionType |-> type],
                     error |-> "Unknown error"]]
    ELSE [st |-> "fulfilled",
          entry |-> [id |-> ItemId(k), result |-> ExtractData(type, outcome),
                     error |-> "none"]]

Pending == [st |-> "pending", entry |-> NoEntry]
Idle    == [st |-> "idle", entry |-> NoEntry]

Settled(p) == p.st \in {"fulfilled", "rejected"}

\* Mutant of PromiseAllSettles: the await is raced against a timer and
\* continues whether or not the calls have settled.
PromiseAllOrTimeout(ps, chunk) == TRUE

\* Mutant of PromiseAllSettles: resolves as soon as one promise has settled
\* (Promise.race / Promise.any).
PromiseAnySettles(ps, chunk) ==
    \E k \in chunk : Settled(ps[k])

\* await Promise.all(batchPromises) continues once every promise of the chunk
\* is fulfilled, or as soon as one of them is rejected.
PromiseAllSettles(ps, chunk) ==
    \/ \A k \in chunk : ps[k].st = "fulfilled"
    \/ \E k \in chunk : ps[k].st = "rejected"

PromiseAllRejects(ps, chunk) == \E k \in chunk : ps[k].st = "rejected"

RECURSIVE SeqOfRange(_, _, _)
SeqOfRange(f, lo, hi) ==
    IF lo > hi THEN <<>> ELSE <<f[lo]>> \o SeqOfRange(f, lo + 1, hi)

RECURSIVE SelectIn(_, _)
SelectIn(s, S) ==
    IF s = <<>> THEN <<>>
    ELSE (IF Head(s) \in S THEN <<Head(s)>> ELSE <<>>) \o SelectIn(Tail(s), S)

\* Mutant of PromiseAllValue: the values in the order the promises settled.
PromiseAllByCompletion(ps, ord, chunk) ==
    LET done == SelectIn(ord, chunk)
    IN  [j \in 1 .. Len(done) |-> ps[done[j]].entry]

\* The array Promise.all resolves with: the promises' values in the order of
\* the batchPromises array, whatever order they settled in.
PromiseAllValue(ps, ord, chunk) ==
    LET lo == CHOOSE k \in chunk : \A m \in chunk : k <= m
        hi == CHOOSE k \in chunk : \A m \in chunk : k >= m
        entries == [k \in chunk |-> ps[k].entry]
    IN  SeqOfRange(entries, lo, hi)

\* One iteration of the for loop up to its await: the chunk's callbacks all
\* start; a callback whose prompt cannot be built settles without a remote
\* call, the others have their remote call in flight.
Dispatch(ps, i, rq) ==
    [k \in DOMAIN ps |->
        IF k \in Slice(i, rq.n)
        THEN IF BuildPromptThrows(rq.extractionType, rq.hasSchema)
             THEN BatchItem(k, rq.extractionType, "prompt")
             ELSE Pending
        ELSE ps[k]]

DispatchOrder(i, rq) ==
    IF BuildPromptThrows(rq.extractionType, rq.hasSchema)
    THEN [j \in 1 .. Cardinality(Slice(i, rq.n)) |-> i + j]
    ELSE <<>>

DispatchOutcomes(oc, i, rq) ==
    [k \in DOMAIN oc |->
        IF k \in Slice(i, rq.n) /\ BuildPromptThrows(rq.extractionType, rq.hasSchema)
        THEN "prompt" ELSE oc[k]]

\* The remote calls the iteration starts: one chat.completions.create per
\* item of the chunk whose prompt was built.
DispatchCalls(cs, i, rq) ==
    [k \in DOMAIN cs |->
        IF k \in Slice(i, rq.n) /\ ~BuildPromptThrows(rq.extractionType, rq.hasSchema)
        THEN cs[k] + 1 ELSE cs[k]]

\* Mutant of RetryAfter: a failed call is made once more.
RetryAfterFailure(outcome, made) == outcome # "ok" /\ made < 2

\* Whether extractData calls the provider again after a call settled with
\* the outcome: its try block has no loop and its catch block returns.
RetryAfter(outcome, made) == FALSE

BatchIdle ==
    /\ breq = [n |-> 0, extractionType |-> "none", hasSchema |-> FALSE]
    /\ bpc = "off"
    /\ bi = 0
    /\ promises = <<>>
    /\ order = <<>>
    /\ outcomes = <<>>
    /\ calls = <<>>
    /\ delays = 0
    /\ results = <<>>
    /\ bstatus = 0

\* The environment with both provider keys set.
AllKeys == [falKey |-> TRUE, openaiKey |-> TRUE]

\* The startup of the server, from dotenv.config to app.listen: nothing reads
\* JWT_SECRET, FAL_KEY or OPENAI_API_KEY on the way, so the server listens
\* whatever the environment holds.
StartupFails(secretSet, keys) == FALSE

\* No login request handled yet.
NoLogin == [email |-> "none", password |-> <<"none", "">>, valid |-> FALSE,
            status |-> 0, message |-> "none", token |-> "none"]

AuthIdle ==
    /\ users = <<>>
    /\ reg = <<>>
    /\ jwtSecret = TRUE
    /\ given = <<>>
    /\ login = NoLogin

GateIdle ==
    /\ hits = <<>>
    /\ seen = <<>>
    /\ last = <<>>
    /\ env = AllKeys

\* Nothing downloaded yet.
NoDownload == [transcription |-> 0, extraction |-> 0]

\* The page as loaded, before any click.
ClientIdle ==
    /\ runs = <<>>
    /\ currentTranscriptionResult = 0
    /\ currentExtractionResult = 0
    /\ resultsDisplay = FALSE
    /\ resultsIntact = TRUE
    /\ downloaded = NoDownload

\* A POST /api/extraction/batch request that passed the gate and validation:
\* 1..MaxItems items, any extraction type, customSchema present or not.
InitBatch ==
    /\ \E n \in 1 .. MaxItems, in \in BatchInputs :
          breq = [n |-> n, extractionType |-> in[1], hasSchema |-> in[2]]
    /\ bpc = "handler"
    /\ bi = 0
    /\ promises = [k \in 1 .. breq.n |-> Idle]
    /\ order = <<>>
    /\ outcomes = [k \in 1 .. breq.n |-> "none"]
    /\ calls = [k \in 1 .. breq.n |-> 0]
    /\ delays = 0
    /\ results = <<>>
    /\ bstatus = 0
    /\ AuthIdle
    /\ GateIdle
    /\ ClientIdle

\* The handler calls extractDataBatch, which runs its first iteration up to
\* the await of Promise.all.
StartBatch ==
    /\ bpc = "handler"
    /\ bi' = 0
    /\ results' = <<>>
    /\ promises' = Dispatch(promises, 0, breq)
    /\ order' = DispatchOrder(0, breq)
    /\ outcomes' = DispatchOutcomes(outcomes, 0, breq)
    /\ calls' = DispatchCalls(calls, 0, breq)
    /\ bpc' = "await"
    /\ UNCHANGED <<breq, bstatus, delays>>
    /\ UNCHANGED authVars
    /\ UNCHANGED gateVars
    /\ UNCHANGED clientVars

\* The remote call of item k settles with some outcome and the item's
\* callback finishes (a retry would leave it pending on a further call).
RemoteSettles(k) ==
    /\ promises[k].st = "pending"
    /\ \E o \in RemoteOutcomes :
          IF RetryAfter(o, calls[k])
          THEN /\ calls' = [calls EXCEPT ![k] = @ + 1]
               /\ UNCHANGED <<promises, outcomes, order>>
          ELSE /\ promises' = [promises EXCEPT ![k] = BatchItem(k, breq.extractionType, o)]
               /\ outcomes' = [outcomes EXCEPT ![k] = o]
               /\ order' = Append(order, k)
               /\ UNCHANGED calls
    /\ UNCHANGED <<breq, bpc, bi, results, bstatus, delays>>
    /\ UNCHANGED authVars
    /\ UNCHANGED gateVars
    /\ UNCHANGED clientVars

\* Mutant of DelayNeeded: the delay is also made after the last chunk.
DelayAlways(i, n) == TRUE

\* `if (i + maxConcurrent < request.transcriptions.length)`: another chunk
\* follows.
DelayNeeded(i, n) == i + maxConcurrent < n

\* Status the /batch handler's catch block answers for a rejected batch.
BatchCatchStatus == 500

\* The continuation of await Promise.all: push the chunk's entries, then
\* either start the pacing delay or return; the handler answers 200 with the
\* returned list.  A rejection leaves the loop and reaches the handler's catch.
ChunkSettles ==
    /\ bpc = "await"
    /\ PromiseAllSettles(promises, Slice(bi, breq.n))
    /\ IF PromiseAllRejects(promises, Slice(bi, breq.n))
       THEN /\ bpc' = "responded"
            /\ bstatus' = BatchCatchStatus
            /\ UNCHANGED <<results, delays>>
       ELSE /\ results' = results \o PromiseAllValue(promises, order, Slice(bi, breq.n))
            /\ IF DelayNeeded(bi, breq.n)
               THEN bpc' = "delay" /\ delays' = delays + 1 /\ UNCHANGED bstatus
               ELSE bpc' = "responded" /\ bstatus' = 200 /\ UNCHANGED delays
    /\ UNCHANGED <<breq, bi, promises, order, outcomes, calls>>
    /\ UNCHANGED authVars
    /\ UNCHANGED gateVars
    /\ UNCHANGED clientVars

\* The 1000 ms timer fires: i += maxConcurrent and the next iteration runs up
\* to its await.
DelayElapses ==
    /\ bpc = "delay"
    /\ bi' = bi + maxConcurrent
    /\ promises' = Dispatch(promises, bi + maxConcurrent, breq)
    /\ order' = DispatchOrder(bi + maxConcurrent, breq)
    /\ outcomes' = DispatchOutcomes(outcomes, bi + maxConcurrent, breq)
    /\ calls' = DispatchCalls(calls, bi + maxConcurrent, breq)
    /\ bpc' = "await"
    /\ UNCHANGED <<breq, results, bstatus, delays>>
    /\ UNCHANGED authVars
    /\ UNCHANGED gateVars
    /\ UNCHANGED clientVars

NextBatch ==
    \/ StartBatch
    \/ \E k \in 1 .. breq.n : RemoteSettles(k)
    \/ ChunkSettles
    \/ DelayElapses

SpecBatch == InitBatch /\ [][NextBatch]_vars

\* The batches explored for termination.
InitBatchLive == InitBatch /\ breq.n <= MaxLiveItems

\* The event loop runs every continuation that is ready and fires the timer
\* of the pacing delay; that every remote call settles is the hypothesis of
\* the termination claim.
SpecBatchFair ==
    /\ InitBatchLive
    /\ [][NextBatch]_vars
    /\ WF_vars(StartBatch)
    /\ WF_vars(\E k \in 1 .. breq.n : RemoteSettles(k))
    /\ WF_vars(ChunkSettles)
    /\ WF_vars(DelayElapses)

(***************************************************************************)
(* Claims about the batch orchestrator (checked under SpecBatch)           *)
(***************************************************************************)
ChunkOf(k) == (k - 1) \div maxConcurrent

\* C1: the list extractDataBatch returns has exactly one entry per input
\* item and entry k carries the id of input item k, whatever order the remote
\* calls settled in; while the batch runs, results is a prefix of that list.
C1_OrderPreserved ==
    /\ \A k \in 1 .. Len(results) : results[k].id = ItemId(k)
    /\ Len(results) <= breq.n
    /\ bpc = "responded" => Len(results) = breq.n

\* C1 witness: a batch of two chunks has returned, and the calls of its last
\* chunk settled in the reverse of the input order.
C1_Witness ==
    /\ bpc = "responded"
    /\ breq.n > maxConcurrent + 1
    /\ Len(results) = breq.n
    /\ Len(order) > 1
    /\ order[1] > order[2]

\* C3: whatever subset of the items fails, the batch resolves with an entry
\* for every item, the handler answers 200, and each entry is the result of
\* that item's own call: an item that succeeded has a success=true entry
\* whether or not other items failed.
C3_FailureIsolated ==
    /\ bstatus \in {0, 200}
    /\ bpc = "responded" =>
          /\ bstatus = 200
          /\ Len(results) = breq.n
          /\ \A k \in 1 .. breq.n :
                 /\ results[k].id = ItemId(k)
                 /\ results[k].result.success = (outcomes[k] = "ok")

\* C3 witness: a batch answered after one item failed and a later item of
\* the same chunk and an item of the next chunk succeeded.
C3_Witness ==
    /\ bpc = "responded"
    /\ bstatus = 200
    /\ breq.n > maxConcurrent
    /\ outcomes[1] = "error"
    /\ outcomes[2] = "ok"
    /\ outcomes[breq.n] = "ok"
    /\ results[2].result.success

\* C4 (as claimed): the entry of an item whose remote call was made carries
\* an error string in its error field exactly when the item failed (remote
\* call error, empty response or unparseable response).
C4_FailedEntryHasError ==
    \A k \in 1 .. Len(results) :
        outcomes[k] \in RemoteOutcomes =>
            ((results[k].error # "none") <=> (outcomes[k] # "ok"))

\* C5: no call of a later chunk has been started while a promise of an
\* earlier chunk is still unsettled.
C5_ChunkBarrier ==
    \A k, m \in 1 .. breq.n :
        (promises[k].st # "idle" /\ ChunkOf(m) < ChunkOf(k)) => Settled(promises[m])

\* C5 witness: a call of the second chunk is in flight.
C5_Witness ==
    \E k \in 1 .. breq.n : ChunkOf(k) > 0 /\ promises[k].st = "pending"

InFlight == {k \in 1 .. breq.n : promises[k].st = "pending"}
Dispatched == {k \in 1 .. breq.n : promises[k].st # "idle"}
CeilDiv(n, d) == (n + d - 1) \div d

\* C24: the items are dispatched in consecutive chunks of 3, the last chunk
\* holding the rest: the loop variable is a multiple of 3, the items
\* dispatched so far are exactly the items of the chunks up to the current
\* one, the calls in flight belong to the current chunk, and there are never
\* more than 3 of them.
C24_ChunksOfThree ==
    /\ bi % 3 = 0
    /\ bpc # "handler" => Dispatched = 1 .. Min(bi + 3, breq.n)
    /\ bpc = "handler" => Dispatched = {}
    /\ InFlight \subseteq (bi + 1) .. Min(bi + 3, breq.n)
    /\ Cardinality(InFlight) <= 3

\* C24 witness: of 7 items, the first six have been pushed as two chunks of
\* 3 and the seventh is in flight alone.
C24_Witness ==
    /\ breq.n = 7
    /\ bi = 6
    /\ Len(results) = 6
    /\ InFlight = {7}

\* C25: a batch of n items makes ceil(n/3) - 1 pacing delays, none when it
\* fits in one chunk and none after the last chunk, and an item of chunk
\* c (counted from 0) is dispatched only after c delays have ended.
C25_PacingDelays ==
    /\ delays <= CeilDiv(breq.n, 3) - 1
    /\ bpc = "responded" => delays = CeilDiv(breq.n, 3) - 1
    /\ breq.n <= 3 => delays = 0
    /\ \A k \in Dispatched :
          \/ ChunkOf(k) < delays
          \/ ChunkOf(k) = delays /\ bpc # "delay"

\* C25 witness: a batch of 7 items has returned after two delays.
C25_Witness ==
    /\ breq.n = 7
    /\ bpc = "responded"
    /\ bstatus = 200
    /\ delays = 2

\* C26: when every remote call eventually settles the batch eventually
\* returns its full result list; as long as a remote call has not settled
\* the batch has not returned, is not in a pacing delay, and no item of a
\* later chunk has been dispatched.
C26_NoTimeout ==
    /\ <>(bpc = "responded" /\ bstatus = 200 /\ Len(results) = breq.n)
    /\ [](\A k \in InFlight :
            /\ bpc = "await"
            /\ \A m \in 1 .. breq.n :
                   ChunkOf(m) > ChunkOf(k) => promises[m].st = "idle")

\* C26 witness: the other calls of the first chunk have settled, the first
\* item's call has not, and the batch waits with the next chunk undispatched.
C26_Witness ==
    /\ breq.n > maxConcurrent
    /\ bpc = "await"
    /\ InFlight = {1}
    /\ promises[2].st = "fulfilled"
    /\ promises[3].st = "fulfilled"
    /\ promises[4].st = "idle"
    /\ results = <<>>

\* C29: extractData never rejects: every settled item of a batch carries a
\* result of extractData itself (the callback's catch block has not run); a
\* failure while building the prompt, during the remote call or while
\* parsing resolves to success=false with confidence 0 and the requested
\* extraction type; success=true only follows one remote call whose response
\* parsed.
C29_NeverRejects ==
    \A k \in 1 .. breq.n :
        Settled(promises[k]) =>
            LET res == promises[k].entry.result
            IN  /\ promises[k].st = "fulfilled"
                /\ promises[k].entry.error = "none"
                /\ res.extractionType = breq.extractionType
                /\ outcomes[k] # "ok" =>
                      /\ ~res.success
                      /\ res.confidence = "zero"
                      /\ res.dataError # "none"
                /\ res.success => outcomes[k] = "ok" /\ calls[k] = 1

\* C29 witness: of one chunk, the first call failed, the second response
\* did not parse and the third parsed.
C29_Witness ==
    /\ breq.n >= 3
    /\ outcomes[1] = "error"
    /\ outcomes[2] = "unparseable"
    /\ outcomes[3] = "ok"
    /\ ~promises[1].entry.result.success
    /\ ~promises[2].entry.result.success
    /\ promises[3].entry.result.success

\* C29, second case: the prompt of a 'custom' request without a schema
\* cannot be built, no remote call is made and the result is a failure.
C29_PromptFailure ==
    /\ BuildPromptThrows(breq.extractionType, breq.hasSchema)
    /\ bpc = "responded"
    /\ \A k \in 1 .. breq.n : calls[k] = 0 /\ ~results[k].result.success

RECURSIVE SumTo(_, _)
SumTo(f, n) == IF n = 0 THEN 0 ELSE f[n] + SumTo(f, n - 1)

Emails    == {"a@x.com", "b@x.com"}
\* Passwords, as <<the first 72 bytes, the bytes after them>>: a short one
\* and one of more than 72 bytes (registerSchema sets a minimum length only).
Passwords == {<<"password1", "">>, <<"72 bytes", "tail a">>}
\* The values `user_${Date.now()}_${Math.random().toString(36).substr(2, 9)}`
\* can take: nothing in the code keeps two calls from producing the same one.
UserIds == {"user_1_a", "user_1_b"}

\* bcrypt.hash(password, 12): a one-way image of the password.  bcrypt's
\* key schedule reads the first 72 bytes of its input only.
BcryptHash(pw) == <<"bcrypt12", pw[1]>>

\* Mutant of ExistingUser: only the first record is compared.
ExistingUserFirstOnly(us, email) ==
    Len(us) > 0 /\ us[1].email = email

\* users.find(u => u.email === validatedData.email) is not undefined.
ExistingUser(us, email) ==
    \E i \in 1 .. Len(us) : us[i].email = email

\* Mutant of PushUser: the new record takes the place of the last one.
ReplaceLastUser(us, u) ==
    IF us = <<>> THEN <<u>> ELSE [us EXCEPT ![Len(us)] = u]

\* users.push(newUser): the one statement that writes the user table.
PushUser(us, u) == Append(us, u)

\* generateToken throws when JWT_SECRET is not set.
GenerateTokenThrows == ~jwtSecret

IdleReg == [pc |-> "idle", email |-> "none", password |-> "none",
            status |-> 0, why |-> "none"]

InitRegister ==
    /\ users = <<>>
    /\ reg = [r \in 1 .. MaxRegs |-> IdleReg]
    /\ jwtSecret \in {secretSet \in BOOLEAN : ~StartupFails(secretSet, AllKeys)}
    /\ given = <<>>
    /\ login = NoLogin
    /\ BatchIdle
    /\ GateIdle
    /\ ClientIdle

\* The handler runs from the start to its first await: registerSchema.parse,
\* the duplicate check, and the call of bcrypt.hash.
RegisterReceive(r) ==
    /\ reg[r].pc = "idle"
    /\ \E email \in Emails, pw \in Passwords, valid \in BOOLEAN :
          reg' = [reg EXCEPT ![r] =
                    IF ~valid
                    THEN [pc |-> "done", email |-> email, password |-> "none",
                          status |-> 400, why |-> "validation"]
                    ELSE IF ExistingUser(users, email)
                    THEN [pc |-> "done", email |-> email, password |-> "none",
                          status |-> 400, why |-> "duplicate"]
                    ELSE [pc |-> "hashing", email |-> email, password |-> pw,
                          status |-> 0, why |-> "none"]]
    /\ UNCHANGED <<users, jwtSecret, given, login>>
    /\ UNCHANGED batchVars
    /\ UNCHANGED gateVars
    /\ UNCHANGED clientVars

\* bcrypt.hash resolves and the handler runs to its end: build newUser,
\* users.push(newUser), generateToken, answer 201; a throw of generateToken is
\* answered 500 by the catch block, after the push.
RegisterHashed(r) ==
    /\ reg[r].pc = "hashing"
    /\ Len(users) < MaxUsers
    /\ \E id \in UserIds :
          users' = PushUser(users, [id |-> id,
                                    email |-> reg[r].email,
                                    password |-> BcryptHash(reg[r].password)])
    /\ given' = Append(given, reg[r].password)
    /\ reg' = [reg EXCEPT ![r].pc = "done",
                          ![r].password = "none",
                          ![r].status = IF GenerateTokenThrows THEN 500 ELSE 201,
                          ![r].why = IF GenerateTokenThrows THEN "token" ELSE "none"]
    /\ UNCHANGED <<jwtSecret, login>>
    /\ UNCHANGED batchVars
    /\ UNCHANGED gateVars
    /\ UNCHANGED clientVars

\* The client of an answered request sends another one.
RegisterAgain(r) ==
    /\ reg[r].pc = "done"
    /\ reg' = [reg EXCEPT ![r] = IdleReg]
    /\ UNCHANGED <<users, jwtSecret, given, login>>
    /\ UNCHANGED batchVars
    /\ UNCHANGED gateVars
    /\ UNCHANGED clientVars

NextRegister ==
    \/ \E r \in 1 .. MaxRegs : RegisterReceive(r)
    \/ \E r \in 1 .. MaxRegs : RegisterHashed(r)
    \/ \E r \in 1 .. MaxRegs : RegisterAgain(r)

SpecRegister == InitRegister /\ [][NextRegister]_vars

(***************************************************************************)
(* POST /api/auth/login                                                    *)
(***************************************************************************)
\* The passwords login requests carry: the registered ones, another short
\* one, and one that differs from the long one after its first 72 bytes.
LoginPasswords == Passwords \cup {<<"password2", "">>, <<"72 bytes", "tail b">>}

\* users.find(u => u.email === validatedData.email): the first match.
FindUser(us, email) ==
    us[CHOOSE i \in 1 .. Len(us) :
          /\ us[i].email = email
          /\ \A j \in 1 .. i - 1 : us[j].email # email]

\* bcrypt.compare(password, hash): hashes the password with the salt and
\* cost stored in the hash and compares the two hashes.
BcryptCompare(pw, hash) == BcryptHash(pw) = hash

\* generateToken(user): the signed payload.
GenerateToken(user) == [id |-> user.id, email |-> user.email]

InvalidCredentials == "Invalid email or password"

\* The /login handler: loginSchema.parse, the lookup, the password
\* comparison, generateToken, the answer.  The record it found cannot change
\* across its await: records are only ever appended.
LoginHandler(us, email, pw, valid) ==
    IF ~valid
    THEN [status |-> 400, message |-> "Validation failed", token |-> "none"]
    ELSE IF ~ExistingUser(us, email)
    THEN [status |-> 401, message |-> InvalidCredentials, token |-> "none"]
    ELSE IF ~BcryptCompare(pw, FindUser(us, email).password)
    THEN [status |-> 401, message |-> InvalidCredentials, token |-> "none"]
    ELSE IF GenerateTokenThrows
    THEN [status |-> 500, message |-> "Login failed", token |-> "none"]
    ELSE [status |-> 200, message |-> "Login successful",
          token |-> GenerateToken(FindUser(us, email))]

Login ==
    /\ \E email \in Emails, pw \in LoginPasswords, valid \in BOOLEAN :
          LET ans == LoginHandler(users, email, pw, valid)
          IN  login' = [email |-> email, password |-> pw, valid |-> valid,
                        status |-> ans.status, message |-> ans.message,
                        token |-> ans.token]
    /\ UNCHANGED <<users, reg, jwtSecret, given>>
    /\ UNCHANGED batchVars
    /\ UNCHANGED gateVars
    /\ UNCHANGED clientVars

\* MaxRegs register requests and any number of login requests.
NextAuth ==
    \/ \E r \in 1 .. MaxRegs : RegisterReceive(r)
    \/ \E r \in 1 .. MaxRegs : RegisterHashed(r)
    \/ Login

SpecAuth == InitRegister /\ [][NextAuth]_vars

(***************************************************************************)
(* Claims about login (checked under SpecAuth)                             *)
(***************************************************************************)
\* The email is registered with exactly this password.
Registered(email, pw) ==
    \E i \in 1 .. Len(users) : users[i].email = email /\ given[i] = pw

\* C19 (as claimed): on a server whose signing secret is set, a login is
\* answered 200, and a token issued, only when the email is registered and
\* the password equals the one given at that registration; a well-formed
\* login with an unknown email or with any other password is answered 401
\* with the one message and no token.
C19_LoginNeedsPassword ==
    jwtSecret =>
        /\ (login.status = 200 \/ login.token # "none")
              => Registered(login.email, login.password)
        /\ (login.valid /\ ~Registered(login.email, login.password))
              => /\ login.status = 401
                 /\ login.message = InvalidCredentials
                 /\ login.token = "none"

\* C22 (as claimed): no register or login request fails because the
\* signing secret is missing (a server without it never accepts requests).
C22_SecretFatal ==
    /\ \A r \in 1 .. MaxRegs : ~(reg[r].status = 500 /\ reg[r].why = "token")
    /\ ~(login.status = 500 /\ ~jwtSecret)

\* C27: a user record is immutable once registered: every step of a login
\* or register request leaves each record of the table as it was and at its
\* place, and removes none, so the table only grows.
C27_RecordsImmutable ==
    [][/\ Len(users') >= Len(users)
       /\ \A i \in 1 .. Len(users) : users'[i] = users[i]]_vars

\* C27 witness: a login has been answered 200 for the first record after a
\* later registration stored the second.
C27_Witness ==
    /\ Len(users) = 2
    /\ login.status = 200
    /\ login.email = users[1].email
    /\ \A r \in 1 .. MaxRegs : reg[r].pc = "done"

(***************************************************************************)
(* Claims about registration (checked under SpecRegister)                  *)
(***************************************************************************)
EmailStored(email) == \E i \in 1 .. Len(users) : users[i].email = email

\* C28 (as claimed): a register request answered with an error status leaves
\* the user table as it was before the request; on a server whose signing
\* secret is unset every register request is answered with an error status,
\* so the table stays empty and every email can still be registered.
C28_ErrorStoresNothing ==
    /\ ~jwtSecret => users = <<>>
    /\ \A r \in 1 .. MaxRegs :
          (reg[r].status = 500 /\ reg[r].why = "token")
              => ~EmailStored(reg[r].email)

\* C2 (as claimed): on a server whose signing secret is set, the user table
\* never holds two records with the same email and at most one register
\* request in flight for an email is answered 201, also when the requests
\* interleave around the await of the password hashing.
C2_UniqueEmail ==
    jwtSecret =>
        /\ \A i, j \in 1 .. Len(users) : i # j => users[i].email # users[j].email
        /\ \A r, q \in 1 .. MaxRegs :
              (r # q /\ reg[r].status = 201 /\ reg[q].status = 201)
                  => reg[r].email # reg[q].email

C20_UniqueIds ==
    (/\ jwtSecret
     /\ \A i, j \in 1 .. Len(users) : i # j => users[i].email # users[j].email)
        => \A i, j \in 1 .. Len(users) : i # j => users[i].id # users[j].id

(***************************************************************************)
(* Request gate: the middleware chain of the server entry point            *)
(***************************************************************************)
RateLimitMax == 5
MinTranscriptionLength == 10
MaxBatchItems == 10

IPs == {"ip1", "ip2"}
Tokens == {"valid", "missing", "invalid"}

ExtractRoute == "/api/extraction/extract"
BatchRoute   == "/api/extraction/batch"
SchemasRoute == "/api/extraction/schemas"
UploadRoute  == "/api/transcription/upload"
AuthRoute    == "/api/auth/login"
HealthRoute  == "/health"

\* The values z.enum([...]) of extractionRequestSchema accepts.
ExtractionTypeEnum ==
    {"repair_details", "parts_inventory", "labor_hours", "customer_info", "custom"}

\* Request bodies, by the properties the schemas look at: length of the
\* transcription text(s), extractionType, customSchema (absent, well-formed,
\* well-formed with an empty field list and description, malformed), number
\* of batch items, mime type of the uploaded file.
NoBody == [textLen |-> 0, type |-> "none", schema |-> "absent", nItems |-> 0,
           file |-> "none"]

\* A body that satisfies extractionRequestSchema, the bodies that differ from
\* it in one property, and one that violates every constraint.
GoodBody == [NoBody EXCEPT !.textLen = MinTranscriptionLength,
                           !.type = "repair_details"]

ExtractBodies ==
    { GoodBody,
      [GoodBody EXCEPT !.textLen = MinTranscriptionLength - 1],
      [GoodBody EXCEPT !.type = "bogus"],
      [GoodBody EXCEPT !.schema = "malformed"],
      [GoodBody EXCEPT !.type = "custom", !.schema = "ok"],
      [GoodBody EXCEPT !.type = "custom"],
      [GoodBody EXCEPT !.type = "custom", !.schema = "empty"],
      [GoodBody EXCEPT !.textLen = MinTranscriptionLength - 1, !.type = "bogus",
                       !.schema = "malformed"] }

BatchBodies ==
    { [b EXCEPT !.nItems = 2] : b \in ExtractBodies }
    \cup { [GoodBody EXCEPT !.nItems = n] : n \in {0, MaxBatchItems, MaxBatchItems + 1} }

UploadBodies ==
    { [NoBody EXCEPT !.file = f] : f \in {"none", "audio/wav", "text/plain"} }

Requests ==
    {[route |-> ExtractRoute, body |-> b] : b \in ExtractBodies}
    \cup {[route |-> BatchRoute, body |-> b] : b \in BatchBodies}
    \cup {[route |-> UploadRoute, body |-> b] : b \in UploadBodies}
    \cup {[route |-> r, body |-> NoBody] : r \in {SchemasRoute, AuthRoute, HealthRoute}}

\* app.use('/api', limiter): the routes the limiter is mounted on.
Limited(route) == route # HealthRoute

\* Mutant of LimiterRejects: the limit is reached one request early.
LimiterRejectsEarly(totalHits) == totalHits >= RateLimitMax

\* The limiter answers 429 when the request's hit count exceeds max.
LimiterRejects(totalHits) == totalHits > RateLimitMax

\* Mutant of Protected: the transcription router is mounted without
\* authMiddleware.
ProtectedExtractionOnly(route) ==
    route \in {ExtractRoute, BatchRoute, SchemasRoute}

\* The routers mounted behind authMiddleware.
Protected(route) ==
    route \in {UploadRoute, ExtractRoute, BatchRoute, SchemasRoute}

\* authMiddleware: a missing or malformed Authorization header and a token
\* that does not verify are answered 401; otherwise req.user is set.
AuthMiddlewareRejects(token) == token # "valid"

\* customSchema is optional, and z.array(z.string()) and z.string() accept an
\* empty list and an empty string.
SchemaParses == {"absent", "ok", "empty"}

\* Mutant of ValidExtractionBody: the transcription's min(10) is dropped.
ValidExtractionBodyNoMin(b) ==
    /\ b.type \in ExtractionTypeEnum
    /\ b.schema \in SchemaParses

\* extractionRequestSchema.parse succeeds.
ValidExtractionBody(b) ==
    /\ b.textLen >= MinTranscriptionLength
    /\ b.type \in ExtractionTypeEnum
    /\ b.schema \in SchemaParses

\* Mutant of ValidBatchBody: the list's max(10) is dropped.
ValidBatchBodyNoMax(b) ==
    /\ b.nItems >= 1
    /\ b.textLen >= MinTranscriptionLength
    /\ b.type \in ExtractionTypeEnum
    /\ b.schema \in SchemaParses

\* batchExtractionSchema.parse succeeds.
ValidBatchBody(b) ==
    /\ b.nItems >= 1
    /\ b.nItems <= MaxBatchItems
    /\ b.textLen >= MinTranscriptionLength
    /\ b.type \in ExtractionTypeEnum
    /\ b.schema \in SchemaParses

Answer(status, stage, details, remote) ==
    [status |-> status, stage |-> stage, details |-> details, remote |-> remote]

\* The catalogue GET /api/extraction/schemas answers with for the
\* comprehensive type: its categories with the field names listed for each,
\* and the total it states.
total_fields == 47

categories ==
    [customer_information |->
        <<"customer_name", "contact_info", "service_requests">>,
     vehicle_information |->
        <<"vin", "vehicle_type", "type", "year", "make", "model", "body_style",
          "engine", "interior_color", "exterior_color", "paint_code",
          "trim_code", "license_plate", "license_state", "license_expiration",
          "job_number", "production_date", "mileage_in", "mileage_out",
          "fuel_level">>,
     damage_assessment |->
        <<"repairable_condition", "primary_impact", "secondary_impact",
          "drivable_status", "impact_notes", "prior_damage_notes",
          "problem_description", "diagnosis">>,
     repair_work |->
        <<"repairs_performed", "labor_type", "tasks_performed", "time_per_task",
          "total_hours", "labor_time", "difficulty_level", "technician_notes">>,
     parts_operations |->
        <<"parts_used", "part_numbers", "part_descriptions", "quantities",
          "suppliers", "costs", "installation_notes", "paint_needed",
          "operation_notes", "estimate_line", "operation_type",
          "operation_description", "quantity", "unit_price", "estimated_total">>,
     recommendations |->
        <<"recommendations">>]

\* The number of field names listed under the given categories.
RECURSIVE FieldsListed(_, _)
FieldsListed(cats, names) ==
    IF names = {} THEN 0
    ELSE LET c == CHOOSE x \in names : TRUE
         IN  Len(cats[c]) + FieldsListed(cats, names \ {c})

\* The handlers of the extraction router: the req.user check, the body
\* validation, then the service call (extractData or extractDataBatch), which
\* starts a remote call unless the prompt cannot be built; extractData turns
\* that throw into a result and the handler answers 200.  Status 0: the
\* response waits for the remote call.
ExtractionHandler(route, b, user) ==
    IF ~user THEN Answer(401, "handler", FALSE, "none")
    ELSE IF route = SchemasRoute THEN Answer(200, "handler", FALSE, "none")
    ELSE IF ~(IF route = BatchRoute THEN ValidBatchBody(b) ELSE ValidExtractionBody(b))
    THEN Answer(400, "validation", TRUE, "none")
    ELSE IF BuildPromptThrows(b.type, b.schema # "absent")
    THEN Answer(200, "service", FALSE, "none")
    ELSE Answer(0, "service", FALSE, "extraction")

\* The mime types the upload's fileFilter accepts.
allowedMimeTypes ==
    {"audio/mpeg", "audio/wav", "audio/mp3", "audio/mp4", "audio/m4a",
     "audio/webm", "audio/flac"}

\* Mutant of FileFilterRejects: every file is accepted.
FileFilterAcceptsAll(mimetype) == FALSE

\* fileFilter calls cb(new Error('Invalid file type...')) for a file whose
\* mime type is not in the list; multer hands the error to next(err).
FileFilterRejects(mimetype) == mimetype \notin allowedMimeTypes

\* The application's errorHandler, for the fileFilter's error: an unsupported
\* media error is answered 400.
ErrorHandlerStatus == 400

\* upload.single('audio') and router.post('/upload'): a rejected file never
\* reaches the handler; without a file the handler answers 400; else the
\* transcription starts.
UploadHandler(b) ==
    IF b.file = "none"
    THEN Answer(400, "validation", FALSE, "none")
    ELSE IF FileFilterRejects(b.file)
    THEN Answer(ErrorHandlerStatus, "upload", FALSE, "none")
    ELSE Answer(0, "service", FALSE, "transcription")

\* Error messages, as the sequence of phrases they are made of.
ProviderMessage(outcome) ==
    CASE outcome = "rate limit"  -> <<"429", "rate limit", "exceeded">>
      [] outcome = "file type"   -> <<"Unsupported", "file type">>
      [] outcome = "too large"   -> <<"File too large">>
      [] outcome = "empty"       -> <<"No response from extraction model">>
      [] outcome = "unparseable" -> <<"Unexpected token in JSON">>
      [] OTHER                   -> <<"Internal", "server error">>

\* error.message.includes(phrase).
Includes(msg, phrase) == \E i \in 1 .. Len(msg) : msg[i] = phrase

\* What the remote chat-completion call behind /extract and /batch can do:
\* the provider's errors include its rate-limit error.
ExtractionOutcomes == RemoteOutcomes \cup {"rate limit"}

\* The catch block of the /extract and /batch handlers (its ZodError branch
\* is the validation above): 429 for a message that mentions the rate limit,
\* else 500.
ExtractionCatch(msg) == IF Includes(msg, "rate limit") THEN 429 ELSE 500

\* Confidence values in hundredths.  The default of a successful result.
DefaultConfidence == 80

\* The confidence field of the provider's parsed output: omitted, or present
\* with a value in [0, 1].
Omitted == [present |-> FALSE, value |-> 0]
ProviderConfidences ==
    {Omitted} \cup {[present |-> TRUE, value |-> v] : v \in {0, 50, 100}}

\* `extractedData.confidence || 0.8`: the default replaces every falsy value,
\* the number 0 as well as an omitted field.
ResultConfidence(c) ==
    IF ~c.present \/ c.value = 0 THEN DefaultConfidence ELSE c.value

\* The confidence of the result extractData resolves with: the catch block
\* sets 0.
ExtractedConfidence(outcome, c) ==
    IF outcome = "ok" THEN ResultConfidence(c) ELSE 0

\* The continuation of `await extractData(...)` (`await extractDataBatch(...)`)
\* in the handler: the call resolved, so 200 with success: true at the top
\* level; the catch block runs only for a rejection.
ExtractionReturns(type, outcome) ==
    IF ExtractDataRejects(outcome)
    THEN [status |-> ExtractionCatch(ProviderMessage(outcome)), success |-> FALSE]
    ELSE [status |-> 200, success |-> TRUE]

\* What the remote transcription call can do: succeed, or fail with a
\* message of the provider's (any text; one that mentions the file type,
\* one that says the file is too large).
TranscriptionOutcomes == {"ok", "error", "file type", "too large"}

\* transcribeWithFalWhisper and transcribe rethrow the provider's error, each
\* with its own prefix before the provider's message.
TranscribeError(outcome) ==
    <<"Transcription failed:", "Fal.ai Whisper transcription failed:">>
        \o ProviderMessage(outcome)

\* The catch block of the /upload handler (its ZodError branch aside).
UploadCatch(msg) ==
    IF Includes(msg, "file type") THEN 400
    ELSE IF Includes(msg, "File too large") THEN 400
    ELSE 500

\* The continuation of `await transcribe(...)` in the /upload handler.
UploadReturns(outcome) ==
    IF outcome = "ok"
    THEN [status |-> 200, success |-> TRUE]
    ELSE [status |-> UploadCatch(TranscribeError(outcome)), success |-> FALSE]

RouteHandler(route, b, user) ==
    CASE route = UploadRoute -> UploadHandler(b)
      [] route \in {ExtractRoute, BatchRoute, SchemasRoute} -> ExtractionHandler(route, b, user)
      [] OTHER -> Answer(200, "handler", FALSE, "none")

\* Mutant of MiddlewareChain: authMiddleware is applied before the limiter.
MiddlewareChainAuthFirst(route) ==
    (IF Protected(route) THEN <<"auth">> ELSE <<>>)
    \o (IF Limited(route) THEN <<"limiter">> ELSE <<>>)
    \o <<"handler">>

\* The middleware a request to the route runs through, in mount order.
MiddlewareChain(route) ==
    (IF Limited(route) THEN <<"limiter">> ELSE <<>>)
    \o (IF Protected(route) THEN <<"auth">> ELSE <<>>)
    \o <<"handler">>

\* Run the chain: the first middleware that answers ends the request.
RECURSIVE RunChain(_, _, _, _, _)
RunChain(chain, rq, token, totalHits, user) ==
    CASE Head(chain) = "limiter" ->
            IF LimiterRejects(totalHits)
            THEN Answer(429, "limiter", FALSE, "none")
            ELSE RunChain(Tail(chain), rq, token, totalHits, user)
      [] Head(chain) = "auth" ->
            IF AuthMiddlewareRejects(token)
            THEN Answer(401, "auth", FALSE, "none")
            ELSE RunChain(Tail(chain), rq, token, totalHits, TRUE)
      [] OTHER -> RouteHandler(rq.route, rq.body, user)

\* `new SpeechToTextService()` and `new DataExtractionService()`, which the
\* handlers call after validation, throw when their key is not set.
ConstructorThrows(route, keys) ==
    \/ route = UploadRoute /\ ~keys.falKey
    \/ route \in {ExtractRoute, BatchRoute} /\ ~keys.openaiKey

\* The handler's catch block for the constructor's error.
ConstructorCatch(route) ==
    IF route = UploadRoute
    THEN UploadCatch(<<"FAL_KEY environment variable is required">>)
    ELSE ExtractionCatch(<<"OPENAI_API_KEY environment variable is required">>)

NoRequest == [ip |-> "none", route |-> "none", token |-> "none", body |-> NoBody,
              nth |-> 0, status |-> 0, stage |-> "none", details |-> FALSE,
              remote |-> "none", outcome |-> "none", success |-> FALSE,
              provided |-> Omitted, confidence |-> -1]

InitGate ==
    /\ hits = [ip \in IPs |-> 0]
    /\ seen = [ip \in IPs |-> 0]
    /\ last = NoRequest
    /\ env = AllKeys
    /\ BatchIdle
    /\ AuthIdle
    /\ ClientIdle

\* A request arrives and runs through the chain up to its answer or to the
\* await of its remote call.  The limiter counts every request it sees.
HandleRequest(ip, rq, token) ==
    /\ Limited(rq.route) => hits[ip] < MaxHits
    /\ LET totalHits == hits[ip] + 1
           nth == IF Limited(rq.route) THEN seen[ip] + 1 ELSE 0
           run == RunChain(MiddlewareChain(rq.route), rq, token, totalHits, FALSE)
           ans == IF run.stage = "service" /\ ConstructorThrows(rq.route, env)
                  THEN Answer(ConstructorCatch(rq.route), "constructor", FALSE, "none")
                  ELSE run
       IN  /\ hits' = IF Limited(rq.route) THEN [hits EXCEPT ![ip] = totalHits] ELSE hits
           /\ seen' = IF Limited(rq.route) THEN [seen EXCEPT ![ip] = nth] ELSE seen
           /\ last' = [ip |-> ip, route |-> rq.route, token |-> token,
                       body |-> rq.body, nth |-> nth, status |-> ans.status,
                       stage |-> ans.stage, details |-> ans.details,
                       remote |-> ans.remote, outcome |-> "none",
                       success |-> (ans.stage = "service" /\ ans.status = 200),
                       provided |-> Omitted, confidence |-> -1]
    /\ UNCHANGED env
    /\ UNCHANGED batchVars
    /\ UNCHANGED authVars
    /\ UNCHANGED clientVars

\* The remote call of the last request settles with some outcome and its
\* handler answers.
RemoteReturns ==
    /\ last.status = 0
    /\ last.remote # "none"
    /\ \E o \in (IF last.remote = "extraction" THEN ExtractionOutcomes
                 ELSE TranscriptionOutcomes) :
       \E c \in (IF last.remote = "extraction" /\ o = "ok" THEN ProviderConfidences
                 ELSE {Omitted}) :
          LET r == IF last.remote = "extraction"
                   THEN ExtractionReturns(last.body.type, o)
                   ELSE UploadReturns(o)
          IN  last' = [last EXCEPT !.status = r.status, !.success = r.success,
                                   !.outcome = o, !.provided = c,
                                   !.confidence =
                                       IF last.remote = "extraction"
                                       THEN ExtractedConfidence(o, c) ELSE -1]
    /\ UNCHANGED <<hits, seen, env>>
    /\ UNCHANGED batchVars
    /\ UNCHANGED authVars
    /\ UNCHANGED clientVars

\* The window elapses: the store's timer resets every client's hit count.
WindowElapses ==
    /\ hits' = [ip \in IPs |-> 0]
    /\ seen' = [ip \in IPs |-> 0]
    /\ UNCHANGED <<last, env>>
    /\ UNCHANGED batchVars
    /\ UNCHANGED authVars
    /\ UNCHANGED clientVars

Next ==
    \/ \E ip \in IPs, rq \in Requests, token \in Tokens : HandleRequest(ip, rq, token)
    \/ RemoteReturns
    \/ WindowElapses

Spec == InitGate /\ [][Next]_vars

\* The server started in any environment, and the authenticated requests of
\* one client.
InitEnv ==
    /\ hits = [ip \in IPs |-> 0]
    /\ seen = [ip \in IPs |-> 0]
    /\ last = NoRequest
    /\ env \in {keys \in [falKey : BOOLEAN, openaiKey : BOOLEAN] :
                   ~StartupFails(TRUE, keys)}
    /\ BatchIdle
    /\ AuthIdle
    /\ ClientIdle

NextEnv ==
    \/ \E rq \in Requests : HandleRequest("ip1", rq, "valid")
    \/ RemoteReturns

SpecEnv == InitEnv /\ [][NextEnv]_vars

(***************************************************************************)
(* Claims about the request gate (checked under Spec)                      *)
(***************************************************************************)
\* The routes of the model under /api, and those under /api/transcription
\* or /api/extraction.
UnderApi(route) ==
    route \in {AuthRoute, UploadRoute, ExtractRoute, BatchRoute, SchemasRoute}
UnderProtectedPrefix(route) ==
    route \in {UploadRoute, ExtractRoute, BatchRoute, SchemasRoute}

\* The body breaks a constraint of the route's schema.
BodyViolates(route, b) ==
    \/ b.textLen < MinTranscriptionLength
    \/ b.type = "bogus"
    \/ b.schema = "malformed"
    \/ route = BatchRoute /\ (b.nItems = 0 \/ b.nItems > MaxBatchItems)

\* C7: with max = 5, the first 5 requests of a client IP to /api/* in a
\* window pass the limiter, the 6th and every later one in that window is
\* answered 429 by the limiter, and after the window has elapsed the count
\* starts again, so the IP's next requests pass.
C7_RateLimit ==
    UnderApi(last.route) =>
        /\ last.nth >= 1
        /\ last.nth <= RateLimitMax => (last.stage # "limiter" /\ last.status # 429)
        /\ last.nth > RateLimitMax => (last.stage = "limiter" /\ last.status = 429)

\* C7 witness: the 7th request of an IP in a window was answered 429 while
\* the other IP has made no request.
C7_Witness ==
    /\ last.nth = RateLimitMax + 2
    /\ last.status = 429
    /\ \E ip \in IPs : ip # last.ip /\ hits[ip] = 0

C10_InvalidBodyIs400 ==
    (last.route \in {ExtractRoute, BatchRoute} /\ BodyViolates(last.route, last.body))
        => (last.status = 400 /\ last.details /\ last.remote = "none")

\* C10 (amended): such a request never starts a remote call; it is answered
\* 400 with a list of violations when it is within the rate limit and carries
\* a valid token, and 429 or 401 by the earlier gate checks otherwise.
C10_InvalidBodyNoRemote ==
    (last.route \in {ExtractRoute, BatchRoute} /\ BodyViolates(last.route, last.body))
        => /\ last.remote = "none"
           /\ last.status \in {400, 401, 429}
           /\ (last.nth <= RateLimitMax /\ last.token = "valid")
                 => (last.status = 400 /\ last.details)

\* C10 witness: an authenticated /extract request with a 9-character
\* transcription was answered 400 with the violations.
C10_Witness ==
    /\ last.route = ExtractRoute
    /\ last.token = "valid"
    /\ last.body.textLen = MinTranscriptionLength - 1
    /\ last.body.type = "repair_details"
    /\ last.status = 400
    /\ last.details
    /\ last.remote = "none"

\* The last request passed the limiter and the token check.
PassedGate == last.token = "valid" /\ last.nth <= RateLimitMax

\* The provider call of the last request has failed.
ProviderFailed == last.outcome \notin {"none", "ok"}

\* C11 (as claimed): a request to /extract or /batch that passed the limiter
\* and the token check, with extractionType 'custom' and no customSchema or
\* one with an empty field list and description, is answered 400 and no
\* remote call is made for it.
C11_CustomNeedsSchema ==
    (/\ last.route \in {ExtractRoute, BatchRoute}
     /\ PassedGate
     /\ last.body.type = "custom"
     /\ last.body.schema \in {"absent", "empty"})
        => (last.status = 400 /\ last.remote = "none")

\* C12 (as claimed): once the remote call made for /extract has failed, the
\* answer is 500, never 200 with a top-level success flag of true.
C12_ProviderFailureIs500 ==
    (last.route = ExtractRoute /\ ProviderFailed)
        => (last.status = 500 /\ ~(last.status = 200 /\ last.success))

\* C13 (as claimed): once the remote call made for /extract or /batch has
\* failed with the provider's rate-limit error, the answer is 429.
C13_ProviderRateLimitIs429 ==
    (last.route \in {ExtractRoute, BatchRoute} /\ last.outcome = "rate limit")
        => last.status = 429

\* C21 (as claimed): a successful extraction result has the confidence the
\* provider returned whenever its output included the field, the value 0
\* included, and the default 0.8 when the provider omitted it.
C21_ConfidenceKept ==
    (last.route = ExtractRoute /\ last.outcome = "ok") =>
        last.confidence = IF last.provided.present THEN last.provided.value
                          ELSE DefaultConfidence

\* C23 (as claimed): no upload or extraction request fails at run time
\* because a provider key is missing (a server without them never listens).
C23_KeysFatal ==
    ~(last.stage = "constructor" /\ last.status = 500)

\* The last request is a /batch request with no items or more than 10.
BatchSizeViolated ==
    /\ last.route = BatchRoute
    /\ (last.body.nItems = 0 \/ last.body.nItems > MaxBatchItems)

\* extractDataBatch was called for the last request.
OrchestrationStarted == last.route = BatchRoute /\ last.stage = "service"

\* C15 (as claimed): a /batch request with no items or more than 10 items
\* is answered 400 and extractDataBatch is not started for it; it is started
\* only for batches of 1 to 10 items.
C15_BatchSizeIs400 ==
    /\ BatchSizeViolated => (last.status = 400 /\ ~OrchestrationStarted)
    /\ OrchestrationStarted => last.body.nItems \in 1 .. MaxBatchItems

\* C15 (amended): extractDataBatch is started only for batches of 1 to 10
\* items; a /batch request with no items or more than 10 is answered 400
\* when it passed the limiter and the token check, and 429 or 401 by those
\* checks otherwise.
C15_BatchSizeGate ==
    /\ BatchSizeViolated =>
          /\ ~OrchestrationStarted
          /\ last.remote = "none"
          /\ last.status \in {400, 401, 429}
          /\ PassedGate => (last.status = 400 /\ last.details)
    /\ OrchestrationStarted => last.body.nItems \in 1 .. MaxBatchItems

\* C15 witness: an authenticated batch of 11 items was answered 400 with no
\* remote call.
C15_Witness ==
    /\ last.route = BatchRoute
    /\ PassedGate
    /\ last.body.nItems = MaxBatchItems + 1
    /\ last.status = 400
    /\ last.remote = "none"

\* The last request is an upload of a file whose mime type is not allowed.
BadMimeUpload ==
    /\ last.route = UploadRoute
    /\ last.body.file # "none"
    /\ last.body.file \notin allowedMimeTypes

\* C17 (as claimed): an upload whose mime type is outside the allow-list is
\* answered 400 and no remote transcription call is made for it.
C17_BadMimeIs400 ==
    BadMimeUpload => (last.status = 400 /\ last.remote = "none")

\* C17 (amended): no remote transcription call is made for such an upload;
\* it is answered 400 when it passed the limiter and the token check, and
\* 429 or 401 by those checks otherwise.
C17_BadMimeNoRemote ==
    BadMimeUpload =>
        /\ last.remote = "none"
        /\ last.outcome = "none"
        /\ last.status \in {400, 401, 429}
        /\ PassedGate => last.status = 400

\* C17 witness: an authenticated upload of a text/plain file was answered
\* 400 before the handler ran.
C17_Witness ==
    /\ last.route = UploadRoute
    /\ PassedGate
    /\ last.body.file = "text/plain"
    /\ last.stage = "upload"
    /\ last.status = 400
    /\ last.remote = "none"

\* C16 (as claimed): when GET /api/extraction/schemas is answered 200, the
\* comprehensive type lists exactly the six categories and the number of
\* field names listed across them equals the stated total of 47.
C16_CatalogueTotal ==
    (last.route = SchemasRoute /\ last.status = 200) =>
        /\ DOMAIN categories =
              {"customer_information", "vehicle_information", "damage_assessment",
               "repair_work", "parts_operations", "recommendations"}
        /\ total_fields = 47
        /\ FieldsListed(categories, DOMAIN categories) = total_fields

\* C18 (as claimed): once the remote transcription call has failed, /upload
\* answers 500, whatever the provider's message says.
C18_TranscriptionFailureIs500 ==
    (last.route = UploadRoute /\ last.remote = "transcription" /\ ProviderFailed)
        => last.status = 500

(***************************************************************************)
(* Browser client: processAudio and downloadResults                        *)
(***************************************************************************)
\* The page as loaded: both stored results null, #results hidden and holding
\* the two <pre> elements and the download button; MaxRuns clicks of the
\* process button to come.
InitClient ==
    /\ runs = [r \in 1 .. MaxRuns |-> "idle"]
    /\ currentTranscriptionResult = 0
    /\ currentExtractionResult = 0
    /\ resultsDisplay = FALSE
    /\ resultsIntact = TRUE
    /\ downloaded = NoDownload
    /\ BatchIdle
    /\ AuthIdle
    /\ GateIdle

\* A click of the process button (it is never disabled): processAudio runs
\* to its first await.  Without a selected file it alerts and returns;
\* otherwise it hides #results and starts the upload.
ProcessAudio(r) ==
    /\ runs[r] = "idle"
    /\ \E hasFile \in BOOLEAN :
          IF ~hasFile
          THEN /\ runs' = [runs EXCEPT ![r] = "no file"]
               /\ UNCHANGED resultsDisplay
          ELSE /\ runs' = [runs EXCEPT ![r] = "transcribing"]
               /\ resultsDisplay' = FALSE
    /\ UNCHANGED <<currentTranscriptionResult, currentExtractionResult,
                   resultsIntact, downloaded>>
    /\ UNCHANGED batchVars
    /\ UNCHANGED authVars
    /\ UNCHANGED gateVars

\* `await transcribeAudio(file)` settles.  On success the run stores its
\* transcription, writes it into #transcriptionText (a TypeError when an
\* earlier showError has replaced the content of #results) and starts the
\* extraction request.  Every throw is caught: showError replaces the
\* content of #results and displays it.
TranscribeReturns(r) ==
    /\ runs[r] = "transcribing"
    /\ \E ok \in BOOLEAN :
          IF ~ok
          THEN /\ runs' = [runs EXCEPT ![r] = "failed"]
               /\ resultsIntact' = FALSE
               /\ resultsDisplay' = TRUE
               /\ UNCHANGED currentTranscriptionResult
          ELSE /\ currentTranscriptionResult' = r
               /\ IF resultsIntact
                  THEN /\ runs' = [runs EXCEPT ![r] = "extracting"]
                       /\ UNCHANGED <<resultsIntact, resultsDisplay>>
                  ELSE /\ runs' = [runs EXCEPT ![r] = "failed"]
                       /\ resultsDisplay' = TRUE
                       /\ UNCHANGED resultsIntact
    /\ UNCHANGED <<currentExtractionResult, downloaded>>
    /\ UNCHANGED batchVars
    /\ UNCHANGED authVars
    /\ UNCHANGED gateVars

\* `await extractData(...)` settles.  On success the run stores its
\* extraction, writes it into #extractionText and displays #results with the
\* download button; a throw is caught as above.
ExtractReturns(r) ==
    /\ runs[r] = "extracting"
    /\ \E ok \in BOOLEAN :
          IF ~ok
          THEN /\ runs' = [runs EXCEPT ![r] = "failed"]
               /\ resultsIntact' = FALSE
               /\ resultsDisplay' = TRUE
               /\ UNCHANGED currentExtractionResult
          ELSE /\ currentExtractionResult' = r
               /\ IF resultsIntact
                  THEN /\ runs' = [runs EXCEPT ![r] = "done"]
                       /\ resultsDisplay' = TRUE
                       /\ UNCHANGED resultsIntact
                  ELSE /\ runs' = [runs EXCEPT ![r] = "failed"]
                       /\ resultsDisplay' = TRUE
                       /\ UNCHANGED resultsIntact
    /\ UNCHANGED <<currentTranscriptionResult, downloaded>>
    /\ UNCHANGED batchVars
    /\ UNCHANGED authVars
    /\ UNCHANGED gateVars

\* A click of the download button, which is inside #results: it can be
\* clicked while #results is displayed and still holds it.  downloadResults
\* alerts when a stored result is null and otherwise writes out both.
DownloadResults ==
    /\ resultsDisplay
    /\ resultsIntact
    /\ downloaded' =
          IF currentTranscriptionResult = 0 \/ currentExtractionResult = 0
          THEN downloaded
          ELSE [transcription |-> currentTranscriptionResult,
                extraction |-> currentExtractionResult]
    /\ UNCHANGED <<runs, currentTranscriptionResult, currentExtractionResult,
                   resultsDisplay, resultsIntact>>
    /\ UNCHANGED batchVars
    /\ UNCHANGED authVars
    /\ UNCHANGED gateVars

NextClient ==
    \/ \E r \in 1 .. MaxRuns : ProcessAudio(r)
    \/ \E r \in 1 .. MaxRuns : TranscribeReturns(r)
    \/ \E r \in 1 .. MaxRuns : ExtractReturns(r)
    \/ DownloadResults

SpecClient == InitClient /\ [][NextClient]_vars

\* C30 (as claimed): the transcription and the extraction a download writes
\* out come from the same processAudio run, also when runs overlap.
C30_DownloadSameRun ==
    downloaded # NoDownload => downloaded.transcription = downloaded.extraction

====
